---- MODULE Spec2Model ----
(***************************************************************************)
(* Model of main.py: the username checker for guns.lol.                    *)
(*                                                                         *)
(*   Checker.parse       classification of a fetched page      (SpecParse) *)
(*   ProxyPool           round-robin / random proxy selection  (SpecPool)  *)
(*   Generator           candidate generation                  (SpecGen)   *)
(*   Checker.batch       fetch / retry / backoff / cancel      (Spec)      *)
(*                                                                         *)
(* Python lists are 0-based; the sequences here are 1-based, so a Python   *)
(* index k is element k + 1.  Result.timestamp is left out.                *)
(***************************************************************************)
EXTENDS Integers, Sequences, FiniteSets, TLC

VARIABLES
    html, status,                       \* Checker.parse: its argument and its return value
    raw, idx, served, picked,           \* ProxyPool: fields, and what next()/random() returned
    gcfg, gpc, gcount, generated,       \* Generator: config block, position, self.count, output
    cfg, proxies, usernames,            \* Checker.cfg, Checker.proxies, the argument of batch
    sigint, shutdown_set,               \* the SIGINT disposition, the _shutdown event
    pc, i, attempt,                     \* position in batch/check/fetch, loop index, fetch's attempt
    results, advanced, trace,           \* batch's results, progress.advance calls, I/O so far
    config, mpc, available, exit_code   \* main: config.json, position, `available`, return value

parseVars == <<html, status>>
poolVars == <<raw, idx, served, picked>>
genVars == <<gcfg, gpc, gcount, generated>>
batchVars == <<cfg, proxies, usernames, sigint, shutdown_set, pc, i, attempt,
               results, advanced, trace>>
mainVars == <<config, mpc, available, exit_code>>
vars == <<parseVars, poolVars, genVars, batchVars, mainVars>>

(***************************************************************************)
(* Checker.parse                                                           *)
(*                                                                         *)
(* A page is the sequence of its elements in document order.  An element   *)
(* is its tag and the set of marker phrases its stripped text contains     *)
(* (`phrase in element.get_text(strip=True)`).                             *)
(***************************************************************************)
BAN == "This user has been banned from"
AVAILABLE == "Username not found"
CLAIM == "Claim this username"
Phrases == {BAN, AVAILABLE, CLAIM}

BANNED == "banned"
AVAILABLE_ == "available"
TAKEN == "taken"
Status == {BANNED, AVAILABLE_, TAKEN}

Tags == {"h1", "h3"}
Element == [tag : Tags, text : SUBSET Phrases]

MaxElems == 3
Pages == UNION {[1..n -> Element] : n \in 0..MaxElems}

\* soup.find(tag): the first element with that tag in document order, 0 for None
find(page, tag) ==
    IF \E k \in 1..Len(page) : page[k].tag = tag
    THEN CHOOSE k \in 1..Len(page) :
            /\ page[k].tag = tag
            /\ \A j \in 1..(k - 1) : page[j].tag # tag
    ELSE 0

\* a classification that reports a page without an h1 as available
parse_fail_open(page) ==
    LET h1 == find(page, "h1")
        h3 == find(page, "h3")
    IN  IF h1 = 0 THEN AVAILABLE_
        ELSE IF BAN \in page[h1].text THEN BANNED
        ELSE IF AVAILABLE \in page[h1].text /\ h3 # 0 /\ CLAIM \in page[h3].text
             THEN AVAILABLE_
        ELSE TAKEN

parse(page) ==
    LET h1 == find(page, "h1")
        h3 == find(page, "h3")
    IN  IF h1 = 0 THEN TAKEN
        ELSE IF BAN \in page[h1].text THEN BANNED
        ELSE IF AVAILABLE \in page[h1].text /\ h3 # 0 /\ CLAIM \in page[h3].text
             THEN AVAILABLE_
        ELSE TAKEN

(***************************************************************************)
(* The parts a specification does not exercise stay as they are here.      *)
(***************************************************************************)
ParseIdle ==
    /\ html = <<>>
    /\ status = "none"

PoolIdle ==
    /\ raw = <<>>
    /\ idx = 0
    /\ served = <<>>
    /\ picked = <<>>

GenIdle ==
    /\ gcfg = [min |-> 0, max |-> 0, digits |-> FALSE, count |-> [t |-> "int", s |-> "", n |-> 0]]
    /\ gpc = "idle"
    /\ gcount = 0
    /\ generated = <<>>

BatchIdle ==
    /\ cfg = [retries |-> 0, delay |-> 0, use_proxy |-> FALSE]
    /\ proxies = "None"
    /\ usernames = <<>>
    /\ sigint = "default"
    /\ shutdown_set = FALSE
    /\ pc = "idle"
    /\ i = 0
    /\ attempt = 0
    /\ results = <<>>
    /\ advanced = 0
    /\ trace = <<>>

MainIdle ==
    /\ config = "none"
    /\ mpc = "idle"
    /\ available = <<>>
    /\ exit_code = -1

InitParse ==
    /\ html \in Pages
    /\ status = "none"
    /\ PoolIdle
    /\ GenIdle
    /\ BatchIdle
    /\ MainIdle

Parse ==
    /\ status = "none"
    /\ status' = parse(html)
    /\ UNCHANGED <<html, poolVars, genVars, batchVars, mainVars>>

NextParse == Parse

SpecParse == InitParse /\ [][NextParse]_vars

(***************************************************************************)
(* ProxyPool                                                               *)
(*                                                                         *)
(* A proxy line is the sequence of its parts, so that `"://" in proxy` and *)
(* proxy.split("://")[0] are computed on it.  raw holds the lines that     *)
(* passed _load's pattern, in file order; idx is the rotation cursor.      *)
(***************************************************************************)
SEP == "://"
ProxyLines ==
    { <<"10.0.0.1:8080">>,
      <<"socks5", SEP, "10.0.0.2:1080">>,
      <<"user:pw@", "10.0.0.3:3128">> }

MaxPool == 3
MaxCalls == 4
Pools == UNION {[1..n -> ProxyLines] : n \in 0..MaxPool}

None == [none |-> TRUE]

has_scheme(proxy) == \E k \in 1..Len(proxy) : proxy[k] = SEP

\* proxy.split("://")[0]: the parts before the first separator
split_first(proxy) ==
    LET k == CHOOSE k \in 1..Len(proxy) :
                 /\ proxy[k] = SEP
                 /\ \A j \in 1..(k - 1) : proxy[j] # SEP
    IN  SubSeq(proxy, 1, k - 1)

fmt(proxy) ==
    LET proto == IF has_scheme(proxy) THEN split_first(proxy) ELSE <<"http">>
        url == IF ~has_scheme(proxy) THEN proto \o <<SEP>> \o proxy ELSE proxy
    IN  [http |-> url, https |-> url]

count == Len(raw)

\* a cursor that steps over one entry
next_idx_skip(r, k) == (k + 2) % Len(r)

\* self.idx = (self.idx + 1) % len(self.raw)
next_idx(r, k) == (k + 1) % Len(r)

\* ProxyPool.next(): the cursor moves first, the entry under the moved cursor
\* is returned
next_cursor(r, k) == IF r = <<>> THEN k ELSE next_idx(r, k)
next_entry(r, k) == IF r = <<>> THEN -1 ELSE next_cursor(r, k)
next_value(r, k) == IF r = <<>> THEN None ELSE fmt(r[next_cursor(r, k) + 1])

InitPool ==
    /\ raw \in Pools
    /\ idx = 0
    /\ served = <<>>
    /\ picked = <<>>
    /\ ParseIdle
    /\ GenIdle
    /\ BatchIdle
    /\ MainIdle

\* a call of next(); served records the index of the entry handed out and
\* the returned value
PoolNext ==
    /\ Len(served) + Len(picked) < MaxCalls
    /\ idx' = next_cursor(raw, idx)
    /\ served' = Append(served, [k |-> next_entry(raw, idx), proxy |-> next_value(raw, idx)])
    /\ UNCHANGED <<raw, picked, parseVars, genVars, batchVars, mainVars>>

\* a call of random(): random.choice(self.raw), or None on an empty pool
PoolRandom ==
    /\ Len(served) + Len(picked) < MaxCalls
    /\ \/ /\ raw # <<>>
          /\ \E k \in 1..Len(raw) : picked' = Append(picked, fmt(raw[k]))
       \/ /\ raw = <<>>
          /\ picked' = Append(picked, None)
    /\ UNCHANGED <<raw, idx, served, parseVars, genVars, batchVars, mainVars>>

NextPool == PoolNext \/ PoolRandom

SpecPool == InitPool /\ [][NextPool]_vars

(***************************************************************************)
(* Generator                                                               *)
(*                                                                         *)
(* A username is the sequence of its characters.  The alphabet is cut to   *)
(* the first letters and digits of string.ascii_lowercase, string.digits.  *)
(* The "count" field of the config block is an integer or a string.        *)
(***************************************************************************)
ascii_lowercase == <<"a", "b">>
digits == <<"0">>

MaxLen == 5
MaxSampleLen == 2
MaxCount == 2
SafeLen == 4

IntCount(n) == [t |-> "int", s |-> "", n |-> n]
StrCount(s) == [t |-> "str", s |-> s, n |-> 0]

\* the generation blocks tried: every length range up to MaxLen for the
\* counts that enumerate, ranges up to MaxSampleLen for the counts that sample
GenConfigs ==
    { c \in [min : 0..MaxLen, max : 0..MaxLen, digits : BOOLEAN,
             count : {StrCount("max")} \cup {IntCount(n) : n \in 0..MaxCount}] :
        (c.count.t = "int" /\ c.count.n > 0) => (c.min <= MaxSampleLen /\ c.max <= MaxSampleLen) }

charset(c) == ascii_lowercase \o (IF c.digits THEN digits ELSE <<>>)

\* an enumerate-all request accepted for any max_len
is_all_nothreshold(c) == c.count.t = "str" /\ c.count.s = "max"

\* cnt == "max" and self.max_len <= 4
is_all(c) == c.count.t = "str" /\ c.count.s = "max" /\ c.max <= SafeLen

\* int(cnt) raises ValueError on "max"
int_fails(c) == c.count.t = "str"

\* itertools.product(cs, repeat=L): the last position varies fastest
RECURSIVE product(_, _)
product(cs, L) ==
    IF L = 0 THEN << <<>> >>
    ELSE LET prev == product(cs, L - 1)
             n == Len(cs)
         IN  [k \in 1..(Len(prev) * n) |->
                 Append(prev[((k - 1) \div n) + 1], cs[((k - 1) % n) + 1])]

\* the lengths range(lo, hi) without its last one
RECURSIVE all_range_short(_, _, _)
all_range_short(cs, lo, hi) ==
    IF lo >= hi THEN <<>>
    ELSE product(cs, lo) \o all_range_short(cs, lo + 1, hi)

\* Generator._all: for length in range(lo, hi + 1), every combo in product order
RECURSIVE all_range(_, _, _)
all_range(cs, lo, hi) ==
    IF lo > hi THEN <<>>
    ELSE product(cs, lo) \o all_range(cs, lo + 1, hi)

\* the strings _random can draw: a length in [lo, hi], then that many characters
Samples(cs, lo, hi) ==
    UNION {[1..L -> {cs[k] : k \in 1..Len(cs)}] : L \in lo..hi}

InitGen ==
    /\ gcfg \in GenConfigs
    /\ gpc = "new"
    /\ gcount = 0
    /\ generated = <<>>
    /\ ParseIdle
    /\ PoolIdle
    /\ BatchIdle
    /\ MainIdle

\* Generator.__init__
GenConstruct ==
    /\ gpc = "new"
    /\ IF is_all(gcfg)
       THEN gcount' = 0 /\ gpc' = "ready"
       ELSE IF int_fails(gcfg)
            THEN gcount' = gcount /\ gpc' = "ValueError"
            ELSE gcount' = gcfg.count.n /\ gpc' = "ready"
    /\ UNCHANGED <<gcfg, generated, parseVars, poolVars, batchVars, mainVars>>

\* Generator.generate: _all() when self.count == 0, else _random(self.count);
\* random.randint(min, max) raises ValueError when min > max
Generate ==
    /\ gpc = "ready"
    /\ IF gcount = 0
       THEN /\ generated' = all_range(charset(gcfg), gcfg.min, gcfg.max)
            /\ gpc' = "done"
       ELSE IF gcfg.min > gcfg.max
            THEN /\ generated' = generated
                 /\ gpc' = "ValueError"
            ELSE /\ generated' \in [1..gcount -> Samples(charset(gcfg), gcfg.min, gcfg.max)]
                 /\ gpc' = "done"
    /\ UNCHANGED <<gcfg, gcount, parseVars, poolVars, batchVars, mainVars>>

NextGen == GenConstruct \/ Generate

SpecGen == InitGen /\ [][NextGen]_vars

(***************************************************************************)
(* Checker.batch, with Checker.check and Checker.fetch inlined             *)
(*                                                                         *)
(* pc:  "call"      batch not yet called                                   *)
(*      "loop"      at `for username in usernames`                         *)
(*      "fetch"     at fetch's `while` test                                *)
(*      "get"       inside self.sess.get(...)                              *)
(*      "sleep"     inside time.sleep(...)                                 *)
(*      "returned"  batch returned results                                 *)
(*      "raised"    batch was left by an exception it does not catch       *)
(* trace lists the session's GETs, the responses, the sleeps, the log lines *)
(* and the signal in order, each with the loop index it happened at.       *)
(***************************************************************************)
MaxUsers == 2
MaxRetries == 3
Delays == {2}

\* the lists batch is called with: names may repeat; the two names are
\* interchangeable, so a list starts with the first
UserNames == { <<"a", "b">>, <<"b", "0">> }
UserLists ==
    { l \in UNION {[1..n -> UserNames] : n \in 0..MaxUsers} :
        l # <<>> => l[1] = <<"a", "b">> }

\* the pools a checker is run with, and the bodies the service answers with
BatchPools == { <<>>, << <<"10.0.0.1:8080">>, <<"socks5", SEP, "10.0.0.2:1080">> >> }
BannedPage == << [tag |-> "h1", text |-> {BAN}] >>
ClaimPage == << [tag |-> "h1", text |-> {AVAILABLE}], [tag |-> "h3", text |-> {CLAIM}] >>
ProfilePage == << [tag |-> "h1", text |-> {}], [tag |-> "h3", text |-> {}] >>
Bodies == {BannedPage, ClaimPage, ProfilePage}
EmptyBody == <<>>

Result(u, st) == [username |-> u, status |-> st]
Event(op, arg) == [op |-> op, i |-> i, arg |-> arg]

\* Checker._proxy
uses_pool == proxies = "pool" /\ cfg.use_proxy
proxy_value == IF uses_pool THEN next_value(raw, idx) ELSE None
proxy_entry == IF uses_pool THEN next_entry(raw, idx) ELSE -1

\* a checker whose calls of next() leave the cursor where it is
proxy_cursor_stuck == idx

\* the cursor after Checker._proxy
proxy_cursor == IF uses_pool THEN next_cursor(raw, idx) ELSE idx

\* a backoff that does not grow
backoff_flat(delay, k) == delay

\* time.sleep(self.cfg.delay * attempt)
backoff(delay, k) == delay * k

\* a loop test that admits one attempt more than the limit
may_attempt_extra(k, retries, stop) == k <= retries /\ ~stop

\* a loop test that always admits a first attempt
may_attempt_first(k, retries, stop) == (k = 0 \/ k < retries) /\ ~stop

\* a loop test that does not look at the shutdown event
may_attempt_nostop(k, retries, stop) == k < retries

\* while attempt < self.cfg.retries and not _shutdown.is_set()
may_attempt(k, retries, stop) == k < retries /\ ~stop

\* a batch loop that does not look at the shutdown event
stops_never(stop) == FALSE

\* if _shutdown.is_set(): ... break
stops(stop) == stop

Init ==
    /\ cfg \in [retries : (-1)..MaxRetries, delay : Delays, use_proxy : BOOLEAN]
    /\ proxies \in {"None", "pool"}
    /\ raw \in (IF proxies = "pool" /\ cfg.use_proxy THEN BatchPools
                ELSE IF proxies = "pool" THEN BatchPools \ {<<>>}
                ELSE {<<>>})
    /\ idx = 0
    /\ served = <<>>
    /\ picked = <<>>
    /\ usernames \in UserLists
    /\ sigint \in {"default", "shutdown"}
    /\ shutdown_set = FALSE
    /\ pc = "call"
    /\ i = 0
    /\ attempt = 0
    /\ results = <<>>
    /\ advanced = 0
    /\ trace = <<>>
    /\ ParseIdle
    /\ GenIdle
    /\ MainIdle

\* batch is called: results = [], the progress task is added
BatchCall ==
    /\ pc = "call"
    /\ pc' = "loop"
    /\ i' = 1
    /\ results' = <<>>
    /\ advanced' = 0
    /\ UNCHANGED <<cfg, proxies, usernames, sigint, shutdown_set, attempt, trace,
                   parseVars, poolVars, genVars, mainVars>>

\* the top of one iteration of `for username in usernames`
BatchLoop ==
    /\ pc = "loop"
    /\ IF i > Len(usernames)
       THEN /\ pc' = "returned"
            /\ UNCHANGED <<attempt, trace>>
       ELSE IF stops(shutdown_set)
            THEN /\ pc' = "returned"
                 /\ trace' = Append(trace, Event("log_shutdown", 0))
                 /\ UNCHANGED attempt
            ELSE /\ pc' = "fetch"
                 /\ attempt' = 0
                 /\ UNCHANGED trace
    /\ UNCHANGED <<cfg, proxies, usernames, sigint, shutdown_set, i, results, advanced,
                   parseVars, poolVars, genVars, mainVars>>

\* a batch that puts the newest result first
Checked_prepend(body, got) ==
    /\ results' = <<Result(usernames[i], parse(body))>> \o results
    /\ trace' = trace \o got \o <<Event("log_status", parse(body))>>
    /\ advanced' = advanced + 1
    /\ i' = i + 1
    /\ pc' = "loop"

\* a batch whose `finally` does not advance after a completed check
Checked_noadvance(body, got) ==
    /\ results' = Append(results, Result(usernames[i], parse(body)))
    /\ trace' = trace \o got \o <<Event("log_status", parse(body))>>
    /\ advanced' = advanced
    /\ i' = i + 1
    /\ pc' = "loop"

\* check's tail and batch's try/finally once fetch returned `body`; got is
\* the response fetch received, if it received one
Checked(body, got) ==
    /\ results' = Append(results, Result(usernames[i], parse(body)))
    /\ trace' = trace \o got \o <<Event("log_status", parse(body))>>
    /\ advanced' = advanced + 1
    /\ i' = i + 1
    /\ pc' = "loop"

\* fetch's `while` test: it admits one more attempt (attempt += 1,
\* proxy = self._proxy(), the GET is sent; the "get" event marks the attempt's
\* start), or fetch does `return ""`
FetchTest ==
    /\ pc = "fetch"
    /\ IF may_attempt(attempt, cfg.retries, shutdown_set)
       THEN /\ attempt' = attempt + 1
            /\ idx' = proxy_cursor
            /\ trace' = Append(trace, Event("get",
                   [attempt |-> attempt + 1, entry |-> proxy_entry, proxy |-> proxy_value]))
            /\ pc' = "get"
            /\ UNCHANGED <<i, results, advanced>>
       ELSE /\ Checked(EmptyBody, <<>>)
            /\ UNCHANGED <<attempt, idx>>
    /\ UNCHANGED <<cfg, proxies, usernames, sigint, shutdown_set, raw, served, picked,
                   parseVars, genVars, mainVars>>

\* the GET answers with a success status: return resp.text
GetOk ==
    /\ pc = "get"
    /\ \E body \in Bodies : Checked(body, <<Event("response", body)>>)
    /\ UNCHANGED <<cfg, proxies, usernames, sigint, shutdown_set, attempt,
                   parseVars, poolVars, genVars, mainVars>>

\* a terminal failure that leaves batch instead of being caught
GetFailAborts ==
    /\ pc = "get"
    /\ IF attempt >= cfg.retries
       THEN /\ trace' = Append(trace, Event("log_attempt_failed", attempt))
            /\ advanced' = advanced + 1
            /\ pc' = "raised"
            /\ UNCHANGED <<results, i>>
       ELSE /\ trace' = trace \o << Event("log_attempt_failed", attempt),
                                    Event("sleep", backoff(cfg.delay, attempt)) >>
            /\ pc' = "sleep"
            /\ UNCHANGED <<results, advanced, i>>
    /\ UNCHANGED <<cfg, proxies, usernames, sigint, shutdown_set, attempt,
                   parseVars, poolVars, genVars, mainVars>>

\* the GET raises (transport error or raise_for_status): the attempt is logged;
\* the last permitted attempt re-raises, batch's `except Exception` logs, appends
\* Result(username, TAKEN) and `finally` advances; otherwise fetch sleeps
GetFail ==
    /\ pc = "get"
    /\ IF attempt >= cfg.retries
       THEN /\ trace' = trace \o << Event("log_attempt_failed", attempt),
                                    Event("log_failed", usernames[i]) >>
            /\ results' = Append(results, Result(usernames[i], TAKEN))
            /\ advanced' = advanced + 1
            /\ i' = i + 1
            /\ pc' = "loop"
       ELSE /\ trace' = trace \o << Event("log_attempt_failed", attempt),
                                    Event("sleep", backoff(cfg.delay, attempt)) >>
            /\ pc' = "sleep"
            /\ UNCHANGED <<results, advanced, i>>
    /\ UNCHANGED <<cfg, proxies, usernames, sigint, shutdown_set, attempt,
                   parseVars, poolVars, genVars, mainVars>>

\* time.sleep returns
Wake ==
    /\ pc = "sleep"
    /\ pc' = "fetch"
    /\ UNCHANGED <<cfg, proxies, usernames, sigint, shutdown_set, i, attempt, results,
                   advanced, trace, parseVars, poolVars, genVars, mainVars>>

\* SIGINT with shutdown(sig, frame) installed, or _shutdown.set() by a caller;
\* the trace notes where the program was
Shutdown ==
    /\ sigint = "shutdown"
    /\ pc \notin {"returned", "raised"}
    /\ ~shutdown_set
    /\ shutdown_set' = TRUE
    /\ trace' = Append(trace, Event("sigint", pc))
    /\ UNCHANGED <<cfg, proxies, usernames, sigint, pc, i, attempt, results, advanced,
                   parseVars, poolVars, genVars, mainVars>>

\* SIGINT with Python's default disposition: KeyboardInterrupt is raised where
\* the program is; inside the try block batch logs, breaks and `finally`
\* advances, elsewhere it leaves batch
Interrupt ==
    /\ sigint = "default"
    /\ pc \in {"loop", "fetch", "get", "sleep"}
    /\ IF pc = "loop"
       THEN /\ pc' = "raised"
            /\ UNCHANGED <<trace, advanced>>
       ELSE /\ pc' = "returned"
            /\ trace' = Append(trace, Event("log_interrupted", 0))
            /\ advanced' = advanced + 1
    /\ UNCHANGED <<cfg, proxies, usernames, sigint, shutdown_set, i, attempt, results,
                   parseVars, poolVars, genVars, mainVars>>

Next ==
    \/ BatchCall
    \/ BatchLoop
    \/ FetchTest
    \/ GetOk
    \/ GetFail
    \/ Wake
    \/ Shutdown
    \/ Interrupt

Spec == Init /\ [][Next]_vars

\* batch is sequential code: a step that can be taken is taken; every GET
\* ends (GetOk or GetFail) and every sleep ends (Wake).  Signals may or may
\* not arrive.
FairSpec ==
    /\ Spec
    /\ WF_vars(BatchCall)
    /\ WF_vars(BatchLoop)
    /\ WF_vars(FetchTest)
    /\ WF_vars(GetOk \/ GetFail)
    /\ WF_vars(Wake)

(***************************************************************************)
(* main                                                                    *)
(*                                                                         *)
(* The run starts after signal.signal(SIGINT, shutdown).  config is what   *)
(* Config.load finds: no readable config.json, one without a "generation"  *)
(* block, or one with it (gcfg); cfg holds its "app" block and raw the     *)
(* valid lines of proxies.txt.                                             *)
(* mpc:  "load"       before Config.load                                   *)
(*       "generator"  before Generator(cfg.generator)                      *)
(*       "generate"   before generator.generate()                          *)
(*       "batch"      inside checker.batch(usernames)                      *)
(*       "exit"       main returned exit_code                              *)
(***************************************************************************)
MainBlocks ==
    { [min |-> 1, max |-> 1, digits |-> FALSE, count |-> StrCount("max")],
      [min |-> 1, max |-> 1, digits |-> FALSE, count |-> IntCount(2)],
      [min |-> 0, max |-> 0, digits |-> TRUE, count |-> IntCount(0)],
      [min |-> 2, max |-> 1, digits |-> TRUE, count |-> IntCount(1)],
      [min |-> 1, max |-> SafeLen + 1, digits |-> TRUE, count |-> StrCount("max")] }

\* [r.username for r in results if r.status is Status.AVAILABLE]
RECURSIVE available_of(_)
available_of(rs) ==
    IF rs = <<>> THEN <<>>
    ELSE (IF Head(rs).status = AVAILABLE_ THEN <<Head(rs).username>> ELSE <<>>)
         \o available_of(Tail(rs))

InitMain ==
    /\ config \in {"unreadable", "no_generation", "generation"}
    /\ cfg \in [retries : (-1)..MaxRetries, delay : Delays, use_proxy : BOOLEAN]
    /\ proxies = "None"
    /\ raw \in (IF cfg.use_proxy THEN BatchPools ELSE {<<>>})
    /\ idx = 0
    /\ served = <<>>
    /\ picked = <<>>
    /\ gcfg \in (IF config = "generation" THEN MainBlocks
                 ELSE {[min |-> 0, max |-> 0, digits |-> FALSE, count |-> IntCount(0)]})
    /\ gpc = "idle"
    /\ gcount = 0
    /\ generated = <<>>
    /\ usernames = <<>>
    /\ sigint = "shutdown"
    /\ shutdown_set = FALSE
    /\ pc = "idle"
    /\ i = 0
    /\ attempt = 0
    /\ results = <<>>
    /\ advanced = 0
    /\ trace = <<>>
    /\ mpc = "load"
    /\ available = <<>>
    /\ exit_code = -1
    /\ ParseIdle

\* cfg = Config.load(); proxies = ProxyPool() if cfg.use_proxy else None;
\* an exception of load ends in `except Exception: return 1`
MainLoad ==
    /\ mpc = "load"
    /\ IF config = "unreadable"
       THEN /\ mpc' = "exit"
            /\ exit_code' = 1
            /\ UNCHANGED proxies
       ELSE /\ mpc' = "generator"
            /\ proxies' = IF cfg.use_proxy THEN "pool" ELSE "None"
            /\ UNCHANGED exit_code
    /\ UNCHANGED <<cfg, usernames, sigint, shutdown_set, pc, i, attempt, results, advanced,
                   trace, config, available, parseVars, poolVars, genVars>>

\* generator = Generator(cfg.generator) if cfg.generator else None; without a
\* generator main returns 1; a ValueError of int(cnt) ends in `return 1`
MainGenerator ==
    /\ mpc = "generator"
    /\ IF config = "no_generation"
       THEN /\ mpc' = "exit"
            /\ exit_code' = 1
            /\ UNCHANGED <<gcount, gpc>>
       ELSE IF is_all(gcfg)
            THEN /\ gcount' = 0
                 /\ gpc' = "ready"
                 /\ mpc' = "generate"
                 /\ UNCHANGED exit_code
       ELSE IF int_fails(gcfg)
            THEN /\ gpc' = "ValueError"
                 /\ mpc' = "exit"
                 /\ exit_code' = 1
                 /\ UNCHANGED gcount
            ELSE /\ gcount' = gcfg.count.n
                 /\ gpc' = "ready"
                 /\ mpc' = "generate"
                 /\ UNCHANGED exit_code
    /\ UNCHANGED <<gcfg, generated, config, available, parseVars, poolVars, batchVars>>

\* usernames = generator.generate(); checker = Checker(...); batch is called
\* next; a ValueError of random.randint ends in `return 1`
MainGenerate ==
    /\ mpc = "generate"
    /\ IF gcount # 0 /\ gcfg.min > gcfg.max
       THEN /\ gpc' = "ValueError"
            /\ mpc' = "exit"
            /\ exit_code' = 1
            /\ UNCHANGED <<generated, usernames, pc>>
       ELSE /\ IF gcount = 0
               THEN generated' = all_range(charset(gcfg), gcfg.min, gcfg.max)
               ELSE generated' \in [1..gcount -> Samples(charset(gcfg), gcfg.min, gcfg.max)]
            /\ usernames' = generated'
            /\ gpc' = "done"
            /\ mpc' = "batch"
            /\ pc' = "call"
            /\ UNCHANGED exit_code
    /\ UNCHANGED <<gcfg, gcount, cfg, proxies, sigint, shutdown_set, i, attempt, results,
                   advanced, trace, config, available, parseVars, poolVars>>

\* batch is over: returned, main collects `available` and returns 0; left by
\* KeyboardInterrupt, main returns 130
MainReport ==
    /\ mpc = "batch"
    /\ pc \in {"returned", "raised"}
    /\ mpc' = "exit"
    /\ IF pc = "raised"
       THEN /\ exit_code' = 130
            /\ UNCHANGED available
       ELSE /\ exit_code' = 0
            /\ available' = available_of(results)
    /\ UNCHANGED <<config, parseVars, poolVars, genVars, batchVars>>

\* SIGINT during main: shutdown(sig, frame) sets the event
MainSignal ==
    /\ mpc # "exit"
    /\ Shutdown

NextMain ==
    \/ MainLoad
    \/ MainGenerator
    \/ MainGenerate
    \/ BatchCall
    \/ BatchLoop
    \/ FetchTest
    \/ GetOk
    \/ GetFail
    \/ Wake
    \/ MainSignal
    \/ MainReport

SpecMain == InitMain /\ [][NextMain]_vars

(***************************************************************************)
(* Properties of Checker.parse (SpecParse)                                 *)
(***************************************************************************)
HasH1(page) == \E k \in 1..Len(page) : page[k].tag = "h1"
PrimaryText(page) == page[find(page, "h1")].text
SomeClaimH3(page) == \E k \in 1..Len(page) : page[k].tag = "h3" /\ CLAIM \in page[k].text

\* C5: parse follows the decision order no h1 -> Taken; ban phrase in the h1
\* -> Banned; not-found phrase in the h1 and a secondary heading with the claim
\* phrase on the page -> Available; everything else -> Taken.
C5_DecisionOrder ==
    status # "none" =>
        status = IF ~HasH1(html) THEN TAKEN
                 ELSE IF BAN \in PrimaryText(html) THEN BANNED
                 ELSE IF AVAILABLE \in PrimaryText(html) /\ SomeClaimH3(html) THEN AVAILABLE_
                 ELSE TAKEN

\* C6: a page whose h1 has the not-found phrase and not the ban phrase, and
\* that has an h3 with the claim phrase anywhere among its h3 elements, is
\* classified Available.
C6_ClaimAnywhere ==
    ( /\ status # "none"
      /\ HasH1(html)
      /\ AVAILABLE \in PrimaryText(html)
      /\ BAN \notin PrimaryText(html)
      /\ SomeClaimH3(html) )
    => status = AVAILABLE_

(***************************************************************************)
(* Properties of ProxyPool (SpecPool)                                      *)
(***************************************************************************)
\* C7: on a pool of n >= 1 entries, every n consecutive next() calls hand out
\* each of the n entries once, each call hands out the entry after the one of
\* the call before (the first after the last), every returned value is the
\* formatted entry, and count() is n whatever next() and random() calls ran.
C7_RoundRobin ==
    raw # <<>> =>
        /\ \A j \in 1..Len(served) :
              /\ served[j].k \in 0..(count - 1)
              /\ served[j].proxy = fmt(raw[served[j].k + 1])
        /\ \A j \in 1..(Len(served) - count + 1) :
              {served[j + d].k : d \in 0..(count - 1)} = 0..(count - 1)
        /\ \A j \in 1..(Len(served) - 1) :
              served[j + 1].k = (served[j].k + 1) % count
        /\ idx \in 0..(count - 1)

C7_Witness ==
    /\ Len(raw) >= 2
    /\ Len(served) > Len(raw)
    /\ picked # <<>>

\* C8: the k-th next() call on a freshly loaded pool returns the entry at
\* index (k - 1) mod n, the first call the first entry; on an empty pool next()
\* returns no proxy and the cursor stays.
C8_CursorThenAdvance ==
    /\ raw # <<>> =>
          \A j \in 1..Len(served) :
              served[j].proxy = fmt(raw[((j - 1) % count) + 1])
    /\ raw = <<>> =>
          /\ idx = 0
          /\ \A j \in 1..Len(served) : served[j].proxy = None

(***************************************************************************)
(* Properties of Generator (SpecGen)                                       *)
(***************************************************************************)
RECURSIVE pow(_, _)
pow(b, e) == IF e = 0 THEN 1 ELSE b * pow(b, e - 1)

RECURSIVE sum_pow(_, _, _)
sum_pow(b, lo, hi) == IF lo > hi THEN 0 ELSE pow(b, lo) + sum_pow(b, lo + 1, hi)

CharsOf(c) == {charset(c)[k] : k \in 1..Len(charset(c))}
CharIndex(c, ch) == CHOOSE k \in 1..Len(charset(c)) : charset(c)[k] = ch

WellFormed(c, u) ==
    /\ Len(u) \in c.min..c.max
    /\ \A k \in 1..Len(u) : u[k] \in CharsOf(c)

\* u comes before v in product order: same length, and at the first position
\* where they differ u has the earlier charset character
ProductBefore(c, u, v) ==
    /\ Len(u) = Len(v)
    /\ \E k \in 1..Len(u) :
          /\ \A j \in 1..(k - 1) : u[j] = v[j]
          /\ CharIndex(c, u[k]) < CharIndex(c, v[k])

\* C9: sampling with an integer count n >= 0 and min_len <= max_len yields
\* exactly n strings, each of a length in [min_len, max_len] over the charset.
C9_SampleCount ==
    ( /\ gpc = "done"
      /\ gcfg.count.t = "int"
      /\ gcfg.count.n >= 0
      /\ gcfg.min <= gcfg.max )
    => /\ Len(generated) = gcfg.count.n
       /\ \A k \in 1..Len(generated) : WellFormed(gcfg, generated[k])

\* C10: enumeration with min_len <= max_len yields the sum over L in
\* [min_len, max_len] of |charset|^L strings, without duplicates, each well
\* formed, shorter before longer and in product order within one length.
C10_Exhaustive ==
    ( /\ gpc = "done"
      /\ gcount = 0
      /\ gcfg.min <= gcfg.max )
    => /\ Len(generated) = sum_pow(Len(charset(gcfg)), gcfg.min, gcfg.max)
       /\ Cardinality({generated[k] : k \in 1..Len(generated)}) = Len(generated)
       /\ \A k \in 1..Len(generated) : WellFormed(gcfg, generated[k])
       /\ \A k \in 1..(Len(generated) - 1) :
             \/ Len(generated[k]) < Len(generated[k + 1])
             \/ ProductBefore(gcfg, generated[k], generated[k + 1])

C10_Witness ==
    /\ gpc = "done"
    /\ gcount = 0
    /\ gcfg.min < gcfg.max
    /\ gcfg.min >= 1
    /\ gcfg.digits
    /\ Len(generated) > Len(charset(gcfg))

(***************************************************************************)
(* Properties of Checker.batch (Spec)                                      *)
(***************************************************************************)
Ops(j, ops) ==
    LET Test(e) == e.i = j /\ e.op \in ops
    IN  SelectSeq(trace, Test)

Interrupted == \E k \in 1..Len(trace) : trace[k].op = "log_interrupted"
FailedAt(j) == Ops(j, {"log_failed"}) # <<>>
SigintAt == CHOOSE k \in 1..Len(trace) : trace[k].op = "sigint"

\* the number of results appended before trace position p
ResultsBefore(p) ==
    Cardinality({k \in 1..(p - 1) : trace[k].op \in {"log_status", "log_failed"}})

\* C1: the usernames of the results collected so far are a prefix of the input
\* list, and a batch that returns with the shutdown event unset and without an
\* interrupt has one result per input username.
C1_OneResultPerInput ==
    /\ Len(results) <= Len(usernames)
    /\ \A j \in 1..Len(results) : results[j].username = usernames[j]
    /\ (pc = "returned" /\ ~shutdown_set /\ ~Interrupted) => Len(results) = Len(usernames)

C1_Witness ==
    /\ pc = "returned"
    /\ ~shutdown_set
    /\ Len(results) = 2
    /\ usernames[1] # usernames[2]
    /\ FailedAt(1)
    /\ results[2].status = AVAILABLE_

\* the step in which the last permitted attempt of the current username fails
TerminalFailure ==
    /\ pc = "get"
    /\ attempt >= cfg.retries
    /\ Len(trace') > Len(trace)
    /\ trace'[Len(trace) + 1].op = "log_attempt_failed"

\* C2: a terminal fetch failure makes batch append Result(username, Taken) for
\* that username, leaves the earlier results as they are and goes on with the
\* next username; the result recorded for a failed username stays Taken.
C2_FailureIsTaken ==
    /\ [][TerminalFailure =>
            /\ results' = Append(results, Result(usernames[i], TAKEN))
            /\ i' = i + 1
            /\ pc' = "loop"]_vars
    /\ [](\A j \in 1..Len(usernames) :
            FailedAt(j) => /\ Len(results) >= j
                           /\ results[j] = Result(usernames[j], TAKEN))

C2_Witness ==
    /\ pc = "returned"
    /\ Len(results) = 2
    /\ FailedAt(1)
    /\ ~FailedAt(2)
    /\ results[2].status = BANNED

\* C3: with retries = N >= 1 and the shutdown event unset, the GETs and sleeps
\* of one fetch alternate GET 1, sleep delay*1, GET 2, sleep delay*2, ...; a
\* fetch that fails terminally made exactly N GETs and N - 1 sleeps, the last
\* failure without a sleep; a fetch that returned a body at attempt k made k
\* GETs and k - 1 sleeps, k <= N.
C3_LinearBackoff ==
    (cfg.retries >= 1 /\ ~shutdown_set) =>
        \A j \in 1..Len(usernames) :
            LET io == Ops(j, {"get", "sleep"})
                fails == Len(Ops(j, {"log_attempt_failed"}))
                gets == Len(Ops(j, {"get"}))
            IN  /\ \A p \in 1..Len(io) :
                      IF p % 2 = 1
                      THEN io[p].op = "get" /\ io[p].arg.attempt = (p + 1) \div 2
                      ELSE io[p].op = "sleep" /\ io[p].arg = cfg.delay * (p \div 2)
                /\ gets <= cfg.retries
                /\ j <= Len(results) =>
                      /\ Len(io) = 2 * gets - 1
                      /\ FailedAt(j) <=> fails = cfg.retries
                      /\ FailedAt(j) => gets = cfg.retries
                      /\ ~FailedAt(j) => fails = gets - 1

C3_Witness ==
    /\ cfg.retries = 3
    /\ cfg.delay = 2
    /\ ~shutdown_set
    /\ Len(results) = 2
    /\ FailedAt(1)
    /\ Ops(1, {"sleep"}) = << [op |-> "sleep", i |-> 1, arg |-> 2], [op |-> "sleep", i |-> 1, arg |-> 4] >>
    /\ Len(Ops(2, {"get"})) = 2
    /\ ~FailedAt(2)

\* C4 as stated: once the shutdown event is set with k results appended, batch
\* returns exactly k results and no further GET is made, wherever the program
\* was when the event was set.
C4_ExactlyK ==
    shutdown_set =>
        /\ \A p \in (SigintAt + 1)..Len(trace) : trace[p].op # "get"
        /\ pc = "returned" => Len(results) = ResultsBefore(SigintAt)

\* C4 as amended: fetch's loop test admits no attempt once the shutdown event
\* is set; set before batch starts, batch returns no result and makes no GET;
\* set with k results appended, batch returns k results when the event was set
\* before the loop's test for username k + 1, and k + 1 when it was set while
\* username k + 1 was being checked.
C4_Cancellation ==
    shutdown_set =>
        LET p == SigintAt
            k == ResultsBefore(p)
            inflight == trace[p].arg \in {"fetch", "get", "sleep"}
        IN  /\ \A q \in (p + 1)..Len(trace) : trace[q].op # "get"
            /\ Len(results) <= k + (IF inflight THEN 1 ELSE 0)
            /\ pc = "returned" => Len(results) = k + (IF inflight THEN 1 ELSE 0)
            /\ trace[p].arg = "call" => /\ results = <<>>
                                        /\ \A q \in 1..Len(trace) : trace[q].op # "get"

C4_Witness ==
    /\ shutdown_set
    /\ pc = "returned"
    /\ trace[SigintAt].arg = "sleep"
    /\ ResultsBefore(SigintAt) = 1
    /\ Len(results) = 2

(***************************************************************************)
(* Properties of main (SpecMain)                                           *)
(***************************************************************************)
NoGet == \A k \in 1..Len(trace) : trace[k].op # "get"

\* the shutdown handler ran while batch was between its first loop test and
\* its return
SignalInBatch ==
    /\ shutdown_set
    /\ trace[SigintAt].arg \in {"loop", "fetch", "get", "sleep"}

\* C11 as stated: a run that completes normally exits with 0; a run without a
\* generation block exits with 1 and checks no username; a run interrupted by
\* the user while batch is in progress stops early, keeps the results gathered
\* so far and exits with 130.
C11_ExitCodes ==
    mpc = "exit" =>
        /\ (pc = "returned" /\ ~shutdown_set) => exit_code = 0
        /\ config = "no_generation" => /\ exit_code = 1
                                       /\ results = <<>>
                                       /\ NoGet
        /\ (SignalInBatch /\ Len(results) < Len(usernames)) =>
               /\ \A j \in 1..Len(results) : results[j].username = usernames[j]
               /\ exit_code = 130

(***************************************************************************)
(* Properties of the shutdown event inside fetch and batch (Spec)          *)
(***************************************************************************)
\* the username that was being checked when the shutdown event was set
SigintUser == trace[SigintAt].i

\* fetch returned "" for username j: a result without a response and without
\* a raised failure
ReturnedEmpty(j) ==
    /\ j <= Len(results)
    /\ Ops(j, {"response", "log_failed"}) = <<>>
    /\ Ops(j, {"log_status"}) = << [op |-> "log_status", i |-> j, arg |-> TAKEN] >>

\* C12: once the shutdown event is set fetch starts no GET; set between two
\* attempts (during a backoff sleep or before fetch's loop test), the fetch in
\* progress ends by returning "" and not by raising, whatever attempts the
\* retry limit still permitted.
C12_FetchStopsOnFlag ==
    shutdown_set =>
        LET p == SigintAt
            j == SigintUser
        IN  /\ \A q \in (p + 1)..Len(trace) : trace[q].op # "get"
            /\ (trace[p].arg \in {"fetch", "sleep"} /\ pc \in {"loop", "returned"}) =>
                   /\ ReturnedEmpty(j)
                   /\ ~FailedAt(j)
                   /\ results[j] = Result(usernames[j], TAKEN)

C12_Witness ==
    /\ shutdown_set
    /\ pc = "returned"
    /\ cfg.retries = 3
    /\ trace[SigintAt].arg = "sleep"
    /\ Len(Ops(SigintUser, {"get"})) = 1
    /\ ReturnedEmpty(SigintUser)

(***************************************************************************)
(* Properties of Checker._proxy (Spec)                                     *)
(***************************************************************************)
\* the attempts of the whole batch, in the order they were started
Gets ==
    LET IsGet(e) == e.op = "get"
    IN  SelectSeq(trace, IsGet)

\* C13: with proxy use enabled and a non-empty pool every attempt, first try
\* or retry, takes its proxy by one call of next(): the k-th attempt of the
\* batch gets the formatted entry k mod len(raw), the cursor has moved by the
\* number of attempts made, and with two or more entries consecutive attempts
\* use different entries.  Without proxy use, without a pool or with an empty
\* one every attempt goes without a proxy and the cursor stays where it was.
C13_ProxyPerAttempt ==
    IF uses_pool /\ raw # <<>>
    THEN /\ idx = Len(Gets) % Len(raw)
         /\ \A k \in 1..Len(Gets) :
               /\ Gets[k].arg.entry = k % Len(raw)
               /\ Gets[k].arg.proxy = fmt(raw[(k % Len(raw)) + 1])
         /\ Len(raw) >= 2 =>
               \A k \in 1..(Len(Gets) - 1) : Gets[k].arg.entry # Gets[k + 1].arg.entry
    ELSE /\ idx = 0
         /\ \A k \in 1..Len(Gets) : Gets[k].arg.proxy = None

C13_Witness ==
    /\ uses_pool
    /\ Len(raw) = 2
    /\ pc = "returned"
    /\ Len(results) = 2
    /\ Len(Gets) = 3
    /\ Gets[1].i = 1
    /\ Gets[2].i = 1
    /\ Gets[3].i = 2
    /\ idx = 1
    /\ Gets[3].arg.proxy # Gets[2].arg.proxy

(***************************************************************************)
(* Properties of the enumeration threshold (SpecGen, SpecMain)             *)
(***************************************************************************)
\* generate() went through _all(): self.count was 0
Enumerated == gpc = "done" /\ gcount = 0

\* C14 as stated: for every generation block, generate() enumerates all
\* candidates only if max_len is within the threshold of 4.
C14_EnumerateOnlyWhenSafe == Enumerated => gcfg.max <= SafeLen

\* the generation block asks for "max" with a max_len over the threshold
MaxOverThreshold ==
    /\ config = "generation"
    /\ gcfg.count = StrCount("max")
    /\ gcfg.max > SafeLen

\* C15: count "max" with max_len > 4 does not enumerate and does not sample:
\* Generator(...) fails with ValueError, no username is generated or fetched,
\* and main exits with 1.
C15_MaxOverThresholdFails ==
    MaxOverThreshold =>
        /\ gpc \in {"idle", "ValueError"}
        /\ mpc \in {"load", "generator", "exit"}
        /\ generated = <<>>
        /\ usernames = <<>>
        /\ results = <<>>
        /\ NoGet
        /\ mpc = "exit" => /\ gpc = "ValueError"
                           /\ exit_code = 1

C15_Witness ==
    /\ MaxOverThreshold
    /\ mpc = "exit"
    /\ gpc = "ValueError"
    /\ exit_code = 1

(***************************************************************************)
(* Properties of the progress accounting of batch (Spec)                   *)
(***************************************************************************)
\* C16 as stated: at the top of every batch iteration and when batch returns,
\* the number of progress advances equals the number of results, whatever the
\* outcomes were (completed check, terminal failure, interrupt during a check).
C16_AdvancesEqualResults ==
    pc \in {"loop", "returned"} => advanced = Len(results)

\* C16 as amended: progress advances once for every username whose check was
\* started and ended, and never for a skipped one; the advances equal the
\* results at the top of every iteration and inside a check, and when batch
\* returns they equal the results, plus one when a KeyboardInterrupt ended the
\* last check without a result.
C16_AdvancePerStartedCheck ==
    /\ advanced <= Len(usernames)
    /\ pc \in {"loop", "fetch", "get", "sleep", "raised"} => advanced = Len(results)
    /\ pc \in {"loop", "fetch", "get", "sleep"} => advanced = i - 1
    /\ pc = "returned" => advanced = Len(results) + (IF Interrupted THEN 1 ELSE 0)

C16_Witness ==
    /\ pc = "returned"
    /\ Interrupted
    /\ FailedAt(1)
    /\ Len(results) = 1
    /\ advanced = 2

(***************************************************************************)
(* Properties of the reported statuses (SpecMain)                          *)
(***************************************************************************)
\* the positions of the Available results, and the k-th of them
AvailableAt == {j \in 1..Len(results) : results[j].status = AVAILABLE_}
KthAvailable(k) ==
    CHOOSE j \in AvailableAt : Cardinality({m \in AvailableAt : m < j}) = k - 1

\* C17: a result is Available only when an attempt for that username got a
\* response whose body has the not-found phrase in its h1 and a claim h3; a
\* username that got no response (terminal failure, fetch cut short by the
\* shutdown event, no attempt) has the result Taken or none; what main reports
\* as available is the usernames of the Available results, in their order.
C17_FailClosed ==
    /\ \A j \in 1..Len(results) :
          /\ results[j].status = AVAILABLE_ =>
                \E k \in 1..Len(trace) :
                    /\ trace[k].op = "response"
                    /\ trace[k].i = j
                    /\ HasH1(trace[k].arg)
                    /\ AVAILABLE \in PrimaryText(trace[k].arg)
                    /\ SomeClaimH3(trace[k].arg)
          /\ Ops(j, {"response"}) = <<>> => results[j] = Result(usernames[j], TAKEN)
    /\ \A j \in 1..Len(usernames) : Ops(j, {"get"}) = <<>> => Ops(j, {"response"}) = <<>>
    /\ mpc # "exit" => available = <<>>
    /\ (mpc = "exit" /\ exit_code = 0) =>
          /\ Len(available) = Cardinality(AvailableAt)
          /\ \A k \in 1..Len(available) : available[k] = results[KthAvailable(k)].username
    /\ (mpc = "exit" /\ exit_code # 0) => available = <<>>

C17_Witness ==
    /\ mpc = "exit"
    /\ exit_code = 0
    /\ Len(results) = 2
    /\ FailedAt(1)
    /\ results[2].status = AVAILABLE_
    /\ available = <<usernames[2]>>

\* C18: when the shutdown event is set while username j is being checked,
\* batch appends at most one more result before it returns, the one of
\* username j; if no attempt for j got a response, that result is Taken
\* although no page of j was ever classified.
C18_AtMostOneMore ==
    (shutdown_set /\ trace[SigintAt].arg \in {"fetch", "get", "sleep"}) =>
        LET j == SigintUser
            k == ResultsBefore(SigintAt)
        IN  /\ k = j - 1
            /\ Len(results) \in {k, k + 1}
            /\ Len(results) = k + 1 =>
                  /\ results[j].username = usernames[j]
                  /\ Ops(j, {"response"}) = <<>> => results[j].status = TAKEN
            /\ \A m \in (j + 1)..Len(usernames) :
                  Ops(m, {"get", "response", "log_status", "log_failed"}) = <<>>

C18_Witness ==
    /\ shutdown_set
    /\ pc = "returned"
    /\ trace[SigintAt].arg = "fetch"
    /\ SigintUser = 1
    /\ Len(usernames) = 2
    /\ cfg.retries >= 1
    /\ ReturnedEmpty(1)
    /\ results = <<Result(usernames[1], TAKEN)>>

(***************************************************************************)
(* Properties of the retry limit (Spec, FairSpec)                          *)
(***************************************************************************)
\* C19: with retries <= 0 fetch makes no attempt, raises nothing and returns
\* "": every result is Taken, nothing is sent, the proxy cursor is not moved,
\* and a batch that is not stopped has one Taken result per input username.
C19_NoRetriesNoAttempt ==
    cfg.retries <= 0 =>
        /\ NoGet
        /\ pc \notin {"get", "sleep"}
        /\ \A k \in 1..Len(trace) :
              trace[k].op \notin {"response", "log_attempt_failed", "log_failed", "sleep"}
        /\ idx = 0
        /\ \A j \in 1..Len(results) : /\ results[j] = Result(usernames[j], TAKEN)
                                      /\ ReturnedEmpty(j)
        /\ (pc = "returned" /\ ~shutdown_set /\ ~Interrupted) =>
              Len(results) = Len(usernames)

C19_Witness ==
    /\ cfg.retries = 0
    /\ uses_pool
    /\ raw # <<>>
    /\ idx = 0
    /\ pc = "returned"
    /\ ~shutdown_set
    /\ Len(usernames) = 2
    /\ results = <<Result(usernames[1], TAKEN), Result(usernames[2], TAKEN)>>

\* max(retries, 0)
AttemptLimit == IF cfg.retries > 0 THEN cfg.retries ELSE 0

\* C20: when every GET and every sleep ends, batch ends (it returns, or a
\* KeyboardInterrupt leaves it) whatever the attempts' outcomes are and
\* whenever the shutdown event is set; no username gets more than retries
\* attempts, the batch makes at most len(usernames) * max(retries, 0) attempts,
\* and the shutdown event, once set, stays set.
C20_Terminates ==
    /\ <>(pc \in {"returned", "raised"})
    /\ [](/\ Len(Gets) <= Len(usernames) * AttemptLimit
          /\ \A j \in 1..Len(usernames) : Len(Ops(j, {"get"})) <= AttemptLimit)
    /\ [][shutdown_set => shutdown_set']_vars

C20_Witness ==
    /\ pc = "returned"
    /\ cfg.retries = 3
    /\ Len(usernames) = 2
    /\ Len(Gets) = 6
    /\ shutdown_set
    /\ trace[SigintAt].arg = "get"
    /\ SigintUser = 2

====
